---- MODULE Spec2Model ----
(***************************************************************************)
(* Model of the two Lambda handlers of aws-rag-pipeline:                   *)
(*   src/lambda/ingestion/main.py  (S3 notification -> chunks -> index)    *)
(*   src/lambda/query/main.py      (query -> similarity search / RAG)      *)
(* The vector index, the object store and the language model are external  *)
(* services; each call to them either succeeds or raises.                  *)
(***************************************************************************)
EXTENDS Integers, Sequences, FiniteSets, Bags

\* ------------------------------------------------------------------ bounds
MaxRecords == 2         \* records per ingestion event
MaxChunks == 2          \* chunks the splitter produces for one object

\* The two execution environments the platform runs the ingestion
\* function in; each serves one invocation.
Invocations == {1, 2}

\* ----------------------------------------------------- configuration values
\* VECTOR_STORE_TYPE: the two supported names and one unsupported name.
StoreTypes == {"opensearch", "pinecone", "faiss"}

\* Object keys as they appear in S3 notifications (URL-encoded).
EventKeys == {"a+b", "c"}

\* unquote_plus on the keys above: '+' decodes to a space.
UnquotePlus(key) == IF key = "a+b" THEN "a b" ELSE key

Objects == {UnquotePlus(k) : k \in EventKeys}

Bucket == "docs"

\* One entry of event['Records'].  s3 = FALSE models a record whose
\* eventSource is 'aws:s3' but that lacks the 's3' structure.
S3Records == [eventSource : {"aws:s3"}, s3 : {TRUE}, key : EventKeys]
BadS3Records == [eventSource : {"aws:s3"}, s3 : {FALSE}, key : {"c"}]
OtherRecords == [eventSource : {"aws:sqs"}, s3 : {FALSE}, key : {"c"}]
RecordValues == S3Records \cup BadS3Records \cup OtherRecords

RecordLists == UNION {[1..n -> RecordValues] : n \in 0..MaxRecords}

\* An ingestion event: json = json.dumps(event) succeeds, dict = the event
\* is a dict (has .get); a missing 'Records' key is the empty list.
IngestEvents ==
    {[json |-> FALSE, dict |-> TRUE, Records |-> <<>>],
     [json |-> TRUE, dict |-> FALSE, Records |-> <<>>]}
    \cup [json : {TRUE}, dict : {TRUE}, Records : RecordLists]

\* An S3 notification as the service delivers it: one record per event.
NotificationEvents == {ev \in IngestEvents : Len(ev.Records) <= 1}

NoEvent == [json |-> TRUE, dict |-> TRUE, Records |-> <<>>]
NoResponse == [statusCode |-> 0, message |-> "", processed_records |-> 0]

\* ------------------------------------------------------------ query events
\* Python values of the request body's fields, by their literal.
QueryValues == {"absent", "None", "''", "'q'"}
FlagValues == {"absent", "False", "True"}

\* bool(v) for the literals above; an absent key reads as its default.
Truthy(v) == v \notin {"absent", "None", "''", "False"}

\* The request body: kind is what event['body'] holds, a JSON string
\* counting as the value it parses to ("absent": the event has no 'body'
\* key, "invalid": a string json.loads rejects, "list": a value that is
\* neither None nor a dict).
NonDictBody(kind) == [kind |-> kind, query |-> "absent", search_only |-> "absent"]
DictBodies == [kind : {"dict"}, query : QueryValues, search_only : FlagValues]

\* A query event: json and dict as for ingestion.
QueryEvents ==
    {[json |-> FALSE, dict |-> TRUE, body |-> NonDictBody("absent")],
     [json |-> TRUE, dict |-> FALSE, body |-> NonDictBody("absent")]}
    \cup [json : {TRUE}, dict : {TRUE},
          body : {NonDictBody(k) : k \in {"absent", "None", "invalid", "list"}}
                 \cup DictBodies]

NoQuery ==
    [event |-> [json |-> TRUE, dict |-> TRUE, body |-> NonDictBody("absent")],
     statusCode |-> 0, keys |-> {}, type |-> "", count |-> 0,
     search |-> "none", llm |-> "none"]

VARIABLES
    VECTOR_STORE_TYPE,  \* module constant read from the environment
    PINECONE_API_KEY,   \* TRUE when the variable is set and non-empty
    s3,                 \* object -> number of chunks its content splits into
    indexExists,        \* the index INDEX_NAME exists in the vector store
    created,            \* number of index-creation calls that succeeded
    index,              \* bag of the records stored in the index
    pc,                 \* ingestion: position of each invocation
    event,              \* ingestion: the event of each invocation
    pos,                \* ingestion: 1-based position in event['Records']
    chunks,             \* ingestion: documents / chunks in hand
    resp,               \* ingestion: the handler's result
    hist,               \* ingestion: what the invocation observed and did
    qresp               \* query: the last invocation's event and result

ivars == <<pc, event, pos, chunks, resp, hist>>
store == <<indexExists, created, index>>
config == <<VECTOR_STORE_TYPE, PINECONE_API_KEY, s3>>
vars == <<config, store, ivars, qresp>>

NoHist == [sawMissing |-> FALSE, rejected |-> FALSE, failedAt |-> "",
           ingested |-> 0]

Init ==
    /\ VECTOR_STORE_TYPE \in StoreTypes
    /\ PINECONE_API_KEY \in BOOLEAN
    /\ s3 \in [Objects -> 0..MaxChunks]
    /\ indexExists = FALSE
    /\ created = 0
    /\ index = EmptyBag
    /\ pc = [p \in Invocations |-> "idle"]
    /\ event = [p \in Invocations |-> NoEvent]
    /\ pos = [p \in Invocations |-> 1]
    /\ chunks = [p \in Invocations |-> <<>>]
    /\ resp = [p \in Invocations |-> NoResponse]
    /\ hist = [p \in Invocations |-> NoHist]
    /\ qresp = NoQuery

\* ------------------------------------------------------- ingestion handler
\* except-branch of lambda_handler: statusCode 500 with the generic message.
ErrorResponse ==
    [statusCode |-> 500, message |-> "Failed to process documents",
     processed_records |-> 0]

\* return of lambda_handler after the loop.
SuccessResponse(ev) ==
    [statusCode |-> 200, message |-> "Documents processed successfully",
     processed_records |-> Len(ev.Records)]

\* An exception that leaves lambda_handler: the runtime reports an
\* invocation error, there is no statusCode/body of the handler's making.
Unhandled ==
    [statusCode |-> -1, message |-> "unhandled", processed_records |-> 0]

\* The handler's except clause is reached from step `at`.
Fail(p, at) ==
    /\ pc' = [pc EXCEPT ![p] = "done"]
    /\ resp' = [resp EXCEPT ![p] = ErrorResponse]
    /\ hist' = [hist EXCEPT ![p].failedAt = at]

\* Invocation p starts on event ev.
Start(p, ev) ==
    /\ pc[p] = "idle"
    /\ pc' = [pc EXCEPT ![p] = "log"]
    /\ event' = [event EXCEPT ![p] = ev]
    /\ UNCHANGED <<config, store, pos, chunks, resp, hist, qresp>>

\* No invocation of either handler is under way.
Quiet ==
    /\ \A q \in Invocations : pc[q] \in {"idle", "gone"}
    /\ qresp = NoQuery

\* The platform invokes the ingestion handler, one invocation at a time,
\* taking the execution environments in order.
Invoke(p) ==
    /\ Quiet
    /\ \A q \in Invocations : q < p => pc[q] # "idle"
    /\ \E ev \in IngestEvents : Start(p, ev)

\* The platform invokes the ingestion handler for a notification while
\* other invocations may be under way.
InvokeOverlapped(p) ==
    \E ev \in NotificationEvents : Start(p, ev)

\* The platform has taken the handler's result; the invocation's locals
\* are gone.
Return(p) ==
    /\ pc[p] = "done"
    /\ pc' = [pc EXCEPT ![p] = "gone"]
    /\ event' = [event EXCEPT ![p] = NoEvent]
    /\ pos' = [pos EXCEPT ![p] = 1]
    /\ chunks' = [chunks EXCEPT ![p] = <<>>]
    /\ resp' = [resp EXCEPT ![p] = NoResponse]
    /\ hist' = [hist EXCEPT ![p] = NoHist]
    /\ UNCHANGED <<config, store, qresp>>

\* logger.info(f"Received event: {json.dumps(event)}"), before the try.
LogEvent(p) ==
    /\ pc[p] = "log"
    /\ IF event[p].json
         THEN /\ pc' = [pc EXCEPT ![p] = "index"]
              /\ UNCHANGED <<resp, hist>>
         ELSE /\ pc' = [pc EXCEPT ![p] = "done"]
              /\ resp' = [resp EXCEPT ![p] = Unhandled]
              /\ hist' = [hist EXCEPT ![p].failedAt = "log"]
    /\ UNCHANGED <<config, store, event, pos, chunks, qresp>>

\* Errors the vector-store service raises, by what str(e) contains.
AlreadyExists == "index already exists"
ServiceError == "connection error"

\* The except clause re-raises whatever the error says.
NeverSwallowed(e) == FALSE

\* `"already exists" not in str(e).lower()` is false: the error is swallowed.
Swallowed(e) == e = AlreadyExists

\* `if not PINECONE_API_KEY: raise ValueError(...)` on the pinecone branch.
MissingKey == VECTOR_STORE_TYPE = "pinecone" /\ ~PINECONE_API_KEY

\* create_index_if_not_exists, up to the existence check.  An unsupported
\* type matches neither branch: the function returns without doing anything.
CheckIndex(p) ==
    /\ pc[p] = "index"
    /\ IF VECTOR_STORE_TYPE \notin {"opensearch", "pinecone"}
         THEN /\ pc' = [pc EXCEPT ![p] = "loop"]
              /\ UNCHANGED <<resp, hist>>
         ELSE IF MissingKey
         THEN Fail(p, "index")
         ELSE \/ /\ pc' = [pc EXCEPT ![p] = IF indexExists THEN "loop" ELSE "create"]
                 /\ hist' = [hist EXCEPT ![p].sawMissing = ~indexExists]
                 /\ UNCHANGED resp
              \/ /\ ~Swallowed(ServiceError)
                 /\ Fail(p, "index")
    /\ UNCHANGED <<config, store, event, pos, chunks, qresp>>

\* client.indices.create / pinecone.create_index and the except clause
\* around it.  The service rejects the creation of an index that exists.
CreateIndex(p) ==
    /\ pc[p] = "create"
    /\ \/ /\ ~indexExists
          /\ indexExists' = TRUE
          /\ created' = created + 1
          /\ pc' = [pc EXCEPT ![p] = "loop"]
          /\ UNCHANGED <<resp, hist>>
       \/ \E e \in IF indexExists THEN {AlreadyExists} ELSE {ServiceError} :
             /\ pc' = [pc EXCEPT ![p] = IF Swallowed(e) THEN "loop" ELSE "done"]
             /\ resp' = [resp EXCEPT ![p] =
                    IF Swallowed(e) THEN @ ELSE ErrorResponse]
             /\ hist' = [hist EXCEPT
                    ![p].rejected = (e = AlreadyExists),
                    ![p].failedAt = IF Swallowed(e) THEN @ ELSE "index"]
             /\ UNCHANGED <<indexExists, created>>
    /\ UNCHANGED <<config, index, event, pos, chunks, qresp>>

\* One turn of `for record in event.get('Records', [])`: leave the loop and
\* return 200, skip a record of another source, or extract bucket and key.
NextRecord(p) ==
    /\ pc[p] = "loop"
    /\ IF ~event[p].dict
         THEN Fail(p, "records") /\ UNCHANGED pos
         ELSE IF pos[p] > Len(event[p].Records)
         THEN /\ pc' = [pc EXCEPT ![p] = "done"]
              /\ resp' = [resp EXCEPT ![p] = SuccessResponse(event[p])]
              /\ UNCHANGED <<hist, pos>>
         ELSE IF event[p].Records[pos[p]].eventSource # "aws:s3"
         THEN /\ pos' = [pos EXCEPT ![p] = pos[p] + 1]
              /\ UNCHANGED <<pc, resp, hist>>
         ELSE IF ~event[p].Records[pos[p]].s3
         THEN Fail(p, "records") /\ UNCHANGED pos
         ELSE /\ pc' = [pc EXCEPT ![p] = "load"]
              /\ UNCHANGED <<resp, hist, pos>>
    /\ UNCHANGED <<config, store, event, chunks, qresp>>

\* Document(page_content, metadata); page_content is its length in pieces
\* of at most chunk_size characters, chunk_id = -1 while metadata has none.
Document(source, content, id) ==
    [source |-> source, page_content |-> content, chunk_id |-> id]

\* metadata "source": f"s3://{bucket}/{key}"
Source(bucket, key) == <<"s3:", bucket, key>>

\* load_document_from_s3 that logs a failed read and goes on to the next
\* record.
LoadDocumentSkip(p) ==
    /\ pc[p] = "load"
    /\ \/ LET key == UnquotePlus(event[p].Records[pos[p]].key)
          IN  /\ chunks' = [chunks EXCEPT ![p] =
                    <<Document(Source(Bucket, key), s3[key], -1)>>]
              /\ pc' = [pc EXCEPT ![p] = "chunk"]
              /\ UNCHANGED pos
       \/ /\ pc' = [pc EXCEPT ![p] = "loop"]
          /\ pos' = [pos EXCEPT ![p] = pos[p] + 1]
          /\ UNCHANGED chunks
    /\ UNCHANGED <<config, store, event, resp, hist, qresp>>

\* load_document_from_s3: get_object, decode, wrap in one Document.
LoadDocument(p) ==
    /\ pc[p] = "load"
    /\ \/ LET key == UnquotePlus(event[p].Records[pos[p]].key)
          IN  /\ chunks' = [chunks EXCEPT ![p] =
                    <<Document(Source(Bucket, key), s3[key], -1)>>]
              /\ pc' = [pc EXCEPT ![p] = "chunk"]
              /\ UNCHANGED <<resp, hist>>
       \/ Fail(p, "load") /\ UNCHANGED chunks
    /\ UNCHANGED <<config, store, event, pos, qresp>>

\* text_splitter.split_documents on one document, then the enumerate loop
\* that numbers the chunks from 0.
SplitDocuments(documents) ==
    [i \in 1..documents[1].page_content |->
        Document(documents[1].source, 1, i - 1)]

\* chunk_documents.
ChunkDocuments(p) ==
    /\ pc[p] = "chunk"
    /\ chunks' = [chunks EXCEPT ![p] = SplitDocuments(chunks[p])]
    /\ pc' = [pc EXCEPT ![p] = "store"]
    /\ UNCHANGED <<config, store, event, pos, resp, hist, qresp>>

\* The index record of chunk c, stored by invocation p for its n-th record.
IndexRecord(c, p, n) ==
    [source |-> c.source, chunk_id |-> c.chunk_id, inv |-> p, pos |-> n]

\* add_texts that loses the last text.
AddTextsDropLast(idx, texts, p, n) ==
    idx (+) [r \in {IndexRecord(texts[i], p, n) : i \in 1..(Len(texts) - 1)} |-> 1]

\* add_texts that replaces the records of the same source.
AddTextsUpsert(idx, texts, p, n) ==
    LET kept == {r \in BagToSet(idx) : \A i \in DOMAIN texts : r.source # texts[i].source}
    IN  [r \in kept |-> idx[r]]
        (+) [r \in {IndexRecord(texts[i], p, n) : i \in DOMAIN texts} |-> 1]

\* vector_store.add_texts: one new record (fresh id) per text, in order.
AddTexts(idx, texts, p, n) ==
    idx (+) [r \in {IndexRecord(texts[i], p, n) : i \in DOMAIN texts} |->
               Cardinality({i \in DOMAIN texts : IndexRecord(texts[i], p, n) = r})]

\* create_vector_store that takes every name for the default backend.
CreateVectorStoreAny == TRUE

\* create_vector_store of the ingestion function returns a store: the type
\* is one of the two it knows and, for pinecone, the key is set.
CreateVectorStore ==
    /\ VECTOR_STORE_TYPE \in {"opensearch", "pinecone"}
    /\ ~MissingKey

\* store_chunks_in_vector_store: create_vector_store raises for a
\* configuration it does not support; add_texts may fail after having
\* written any prefix of the texts.
StoreChunks(p) ==
    /\ pc[p] = "store"
    /\ IF ~CreateVectorStore
         THEN Fail(p, "store") /\ UNCHANGED <<index, pos, chunks>>
         ELSE \/ /\ index' = AddTexts(index, chunks[p], p, pos[p])
                 /\ pos' = [pos EXCEPT ![p] = pos[p] + 1]
                 /\ chunks' = [chunks EXCEPT ![p] = <<>>]
                 /\ pc' = [pc EXCEPT ![p] = "loop"]
                 /\ hist' = [hist EXCEPT ![p].ingested = @ + 1]
                 /\ UNCHANGED resp
              \/ \E j \in 0..Len(chunks[p]) :
                    /\ index' = AddTexts(index, SubSeq(chunks[p], 1, j), p, pos[p])
                    /\ Fail(p, "store")
                    /\ UNCHANGED <<pos, chunks>>
    /\ UNCHANGED <<config, indexExists, created, event, qresp>>

\* One step of invocation p's handler.
Step(p) ==
    \/ LogEvent(p)
    \/ CheckIndex(p)
    \/ CreateIndex(p)
    \/ NextRecord(p)
    \/ LoadDocument(p)
    \/ ChunkDocuments(p)
    \/ StoreChunks(p)
    \/ Return(p)

\* ----------------------------------------------------------- query handler
\* search_similar_documents(query, k: int = 5)
SearchK == 5
\* search_kwargs={"k": 5} of the retriever in create_qa_chain
RetrieverK == 5

Min(a, b) == IF a < b THEN a ELSE b

\* A search that ignores k.
TopKAll(idx, k) == BagCardinality(idx)

\* The k nearest records of the index: how many there are.
TopK(idx, k) == Min(k, BagCardinality(idx))

QueryResult(status, keys, type, n, search, llm) ==
    [statusCode |-> status, keys |-> keys, type |-> type, count |-> n,
     search |-> search, llm |-> llm]

\* except-branch of the query lambda_handler: 500, 'Internal server error'.
QueryError(search, llm) ==
    QueryResult(500, {"error", "message"}, "", 0, search, llm)

\* `if not query: return {'statusCode': 400, ...}`.
BadRequest == QueryResult(400, {"error"}, "", 0, "none", "none")

\* An exception that leaves the query lambda_handler.
QueryUnhandled == QueryResult(-1, {}, "", 0, "none", "none")

\* The search_only response with another type tag.
SearchResponseTypo(n) ==
    QueryResult(200, {"query", "documents", "type"}, "similarity-search", n,
                "ok", "none")

\* response_data of the search_only branch, returned with statusCode 200.
SearchResponse(n) ==
    QueryResult(200, {"query", "documents", "type"}, "similarity_search", n,
                "ok", "none")

\* response_data of the RetrievalQA branch, returned with statusCode 200.
AnswerResponse(n) ==
    QueryResult(200, {"query", "response", "sources"}, "", n, "ok", "ok")

\* `if search_only:` on body.get('search_only', False).
SearchOnly(body) == Truthy(body.search_only)

\* create_vector_store of the query function returns a store.
QueryVectorStore ==
    /\ VECTOR_STORE_TYPE \in {"opensearch", "pinecone"}
    /\ ~MissingKey

\* The branch after the query check: fate is what the external calls do
\* ("ok", "search": the vector store raises, "llm": the model raises).
Answer(body, idx, fate) ==
    IF ~QueryVectorStore
      THEN QueryError("none", "none")
    ELSE IF fate = "search"
      THEN QueryError("failed", "none")
    ELSE IF SearchOnly(body)
      THEN SearchResponse(TopK(idx, SearchK))
    ELSE IF fate = "llm"
      THEN QueryError("ok", "failed")
    ELSE AnswerResponse(TopK(idx, RetrieverK))

\* body = json.loads(event['body']) if it is a str, else event.get('body', {}).
ParsedBody(ev) ==
    IF ev.body.kind = "absent"
      THEN [kind |-> "dict", query |-> "absent", search_only |-> "absent"]
      ELSE ev.body

\* lambda_handler of the query function.
HandleQuery(ev, idx, fate) ==
    IF ~ev.json THEN QueryUnhandled
    ELSE IF ~ev.dict THEN QueryError("none", "none")
    ELSE IF ParsedBody(ev).kind # "dict" THEN QueryError("none", "none")
    ELSE IF ~Truthy(ParsedBody(ev).query) THEN BadRequest
    ELSE Answer(ParsedBody(ev), idx, fate)

\* Fields f of record a, then those of b.
Merge(a, b) ==
    [f \in DOMAIN a \cup DOMAIN b |-> IF f \in DOMAIN a THEN a[f] ELSE b[f]]

\* One invocation of the query handler.  A search of an index that does
\* not exist raises.
QueryHandler ==
    /\ Quiet
    /\ \E ev \in QueryEvents, fate \in {"ok", "search", "llm"} :
          /\ fate = "search" \/ indexExists
          /\ qresp' = Merge([event |-> ev], HandleQuery(ev, index, fate))
    /\ UNCHANGED <<config, store, ivars>>

\* The platform has taken the query handler's result.
QueryReturn ==
    /\ qresp # NoQuery
    /\ qresp' = NoQuery
    /\ UNCHANGED <<config, store, ivars>>

\* --------------------------------------------------------- specifications
\* Invocations of the two handlers, one after the other.
Next ==
    \/ \E p \in Invocations : Invoke(p)
    \/ \E p \in Invocations : Step(p)
    \/ QueryHandler
    \/ QueryReturn

Spec == Init /\ [][Next]_vars

\* Ingestion invocations that overlap.
NextOverlap ==
    \/ \E p \in Invocations : InvokeOverlapped(p)
    \/ \E p \in Invocations : Step(p)

SpecOverlap == Init /\ [][NextOverlap]_vars

\* ------------------------------------------------------------- properties
\* Invocation p is under way or has just returned.
Live(p) == pc[p] \notin {"idle", "gone"}

\* Record j of p's event is a well-formed S3 record.
IsS3(p, j) == event[p].Records[j].eventSource = "aws:s3" /\ event[p].Records[j].s3

\* The object record j of p's event refers to.
ObjectOf(p, j) == UnquotePlus(event[p].Records[j].key)

\* The index records invocation p stored for its j-th event record.
StoredFor(p, j) == {r \in BagToSet(index) : r.inv = p /\ r.pos = j}

RECURSIVE Copies(_)
Copies(rs) ==
    IF rs = {} THEN 0
    ELSE LET r == CHOOSE x \in rs : TRUE
         IN  CopiesIn(r, index) + Copies(rs \ {r})

\* The index holds, for p's j-th event record, exactly the n chunks
\* 0 .. n-1 of the object, each once.
Complete(p, j) ==
    LET n == s3[ObjectOf(p, j)]
        src == Source(Bucket, ObjectOf(p, j))
    IN  /\ Copies(StoredFor(p, j)) = n
        /\ \A i \in 0..(n - 1) :
              CopiesIn([source |-> src, chunk_id |-> i, inv |-> p, pos |-> j],
                       index) = 1

\* C1: whatever the event and whichever step fails, the handler returns
\* statusCode 500 with its generic message; no exception leaves a handler.
C1_AllFailuresCaught ==
    /\ \A p \in Invocations :
          /\ resp[p] # Unhandled
          /\ hist[p].failedAt # "" =>
                /\ resp[p].statusCode = 500
                /\ resp[p].message = "Failed to process documents"
    /\ qresp.statusCode # -1

\* C2: a request with a non-empty query and search_only = true whose
\* similarity search succeeds is answered 200 with type 'similarity_search'.
C2_SearchOnlyType ==
    (/\ qresp.event.body.kind = "dict"
     /\ Truthy(qresp.event.body.query)
     /\ qresp.event.body.search_only = "True"
     /\ qresp.search = "ok")
    => /\ qresp.statusCode = 200
       /\ qresp.type = "similarity_search"

C2_Witness ==
    /\ qresp.event.body.search_only = "True"
    /\ qresp.statusCode = 200
    /\ qresp.count >= 1

\* C3 as stated: after a successful invocation whose event refers to object
\* X, the records the invocation added for X are as many as X's chunks.
C3_OneRecordPerChunkOfObject ==
    \A p \in Invocations :
        (pc[p] = "done" /\ resp[p].statusCode = 200) =>
            \A j \in DOMAIN event[p].Records :
                IsS3(p, j) =>
                    Copies({r \in BagToSet(index) :
                               /\ r.inv = p
                               /\ r.source = Source(Bucket, ObjectOf(p, j))})
                      = s3[ObjectOf(p, j)]

\* C3 amended: after a successful invocation, each S3 record of the event
\* has exactly one index record per chunk of the object it refers to (so an
\* object the event refers to twice is stored twice), and the other records
\* of the event have none.
C3_OneRecordPerChunkOfRecord ==
    \A p \in Invocations :
        (pc[p] = "done" /\ resp[p].statusCode = 200) =>
            \A j \in DOMAIN event[p].Records :
                IF IsS3(p, j) THEN Complete(p, j) ELSE StoredFor(p, j) = {}

C3_Witness ==
    \E p \in Invocations :
        /\ pc[p] = "done" /\ resp[p].statusCode = 200
        /\ Len(event[p].Records) = 2
        /\ IsS3(p, 1) /\ IsS3(p, 2)
        /\ Copies(StoredFor(p, 1)) >= 2
        /\ Copies(StoredFor(p, 2)) >= 1

\* C4: no step updates or deletes an index record (every record keeps at
\* least its copies), and a step of the query handler leaves the index as
\* it is.
C4_NoUpdateNoDelete ==
    [][/\ \A r \in BagToSet(index) :
             /\ r \in BagToSet(index')
             /\ CopiesIn(r, index') >= CopiesIn(r, index)
       /\ qresp' # qresp => index' = index]_vars

C4_Witness ==
    /\ \E r \in BagToSet(index) : r.inv = 1
    /\ \E r \in BagToSet(index) : r.inv = 2
    /\ qresp.statusCode = 200

\* C5: a 200 response of the query handler has one of two shapes, chosen by
\* search_only: documents + type without a call of the language model, or
\* response + sources with at most 5 sources.
C5_ResponseShapes ==
    qresp.statusCode = 200 =>
        IF Truthy(qresp.event.body.search_only)
          THEN /\ qresp.keys = {"query", "documents", "type"}
               /\ qresp.llm = "none"
          ELSE /\ qresp.keys = {"query", "response", "sources"}
               /\ qresp.llm = "ok"
               /\ qresp.count <= 5

C5_Witness ==
    /\ qresp.statusCode = 200
    /\ ~Truthy(qresp.event.body.search_only)
    /\ qresp.count = 5
    /\ BagCardinality(index) > 5

\* C6: overlapping invocations create the index once; an invocation whose
\* create call is rejected because the index exists swallows the error and
\* goes on to its records, and whoever saw the index missing finds it
\* there when it reaches its records.
C6_IndexCreationRace ==
    /\ created <= 1
    /\ indexExists <=> created = 1
    /\ \A p \in Invocations :
          /\ hist[p].rejected =>
                /\ hist[p].failedAt # "index"
                /\ pc[p] \notin {"index", "create"}
          /\ (hist[p].sawMissing /\ pc[p] \in {"loop", "load", "chunk", "store"})
                => indexExists

C6_Witness ==
    /\ \A p \in Invocations :
          /\ hist[p].sawMissing
          /\ pc[p] \in {"loop", "load", "chunk", "store"}
    /\ \E p \in Invocations : hist[p].rejected
    /\ created = 1

\* A configuration create_vector_store rejects.
Misconfigured ==
    \/ VECTOR_STORE_TYPE \notin {"opensearch", "pinecone"}
    \/ VECTOR_STORE_TYPE = "pinecone" /\ ~PINECONE_API_KEY

NoUsableQuery(ev) ==
    \/ ev.body.kind \in {"absent", "None"}
    \/ ev.body.kind = "dict" /\ ~Truthy(ev.body.query)

\* C8: a request (a JSON object) without a usable query is answered 400
\* and neither the vector store nor the language model is called.
C8_MissingQuery400 ==
    (/\ qresp.statusCode # 0
     /\ qresp.event.json /\ qresp.event.dict
     /\ NoUsableQuery(qresp.event))
    => /\ qresp.statusCode = 400
       /\ qresp.search = "none"
       /\ qresp.llm = "none"

\* C9: in one invocation nothing is stored before the index step is over;
\* records are handled in event order, each one stored completely before
\* the next; a failing step ends the invocation with 500, nothing of a
\* later record is stored and what earlier records stored stays.
C9_OrderAndNoRollback ==
    \A p \in Invocations :
        Live(p) =>
            /\ pc[p] \in {"log", "index", "create"} =>
                  /\ pos[p] = 1
                  /\ \A r \in BagToSet(index) : r.inv # p
            /\ (\E r \in BagToSet(index) : r.inv = p) => indexExists
            /\ \A j \in DOMAIN event[p].Records :
                  /\ j < pos[p] =>
                        IF IsS3(p, j) THEN Complete(p, j) ELSE StoredFor(p, j) = {}
                  /\ j > pos[p] => StoredFor(p, j) = {}
                  /\ (j = pos[p] /\ StoredFor(p, j) # {}) =>
                        /\ pc[p] = "done"
                        /\ hist[p].failedAt = "store"
            /\ hist[p].failedAt \in {"index", "records", "load", "store"} =>
                  /\ pc[p] = "done"
                  /\ resp[p].statusCode = 500

C9_Witness ==
    \E p \in Invocations :
        /\ pc[p] = "done"
        /\ hist[p].failedAt = "load"
        /\ resp[p].statusCode = 500
        /\ pos[p] = 2
        /\ Copies(StoredFor(p, 1)) = 2

\* C10: in a 200 response processed_records is the number of event records
\* that were loaded, chunked and stored.
C10_ProcessedRecordsCount ==
    \A p \in Invocations :
        resp[p].statusCode = 200 => resp[p].processed_records = hist[p].ingested

====
